---- MODULE Spec2Model ----
(***************************************************************************)
(* autocrew.py: the command-line driver (main), the release check          *)
(* (check_latest_version) and the self-upgrade (upgrade_autocrew), as a    *)
(* state machine over the files of the installation directory.             *)
(*                                                                         *)
(* The module has two entry points: main(), run under __main__, and        *)
(* upgrade_autocrew(latest_version), which main calls at line 233 and      *)
(* which any importer can call.  Init covers both.                         *)
(***************************************************************************)
EXTENDS Integers, FiniteSets, Sequences, TLC

\* Bound: the regular files the fetched tree ships beside config.ini.
MaxFiles == 2

FileIds == 1..MaxFiles

\* Bounds of the config documents: one named section beside DEFAULT, option
\* names that differ in case only ("Key", "key") and one that does not.
SectionNames == {"A"}
RawKeys == {"Key", "key", "opt"}
DefaultRawKeys == {"key"}

\* ------------------------------------------------------------ versions

\* AUTOCREW_VERSION = "2.1.4"
AUTOCREW_VERSION == <<2, 1, 4>>

\* A string, as far as packaging.version reads it: its leading prose (empty
\* for none) and the release number it ends with (<<>> for none).
VersionText(v) == [words |-> "", ver |-> v]

GarbageTag == [words |-> "nightly", ver |-> <<>>]

RemoteTags == {VersionText(<<2, 1, 3>>), VersionText(<<2, 1, 4>>),
               VersionText(<<2, 2, 0>>), GarbageTag}

\* The three f-strings check_latest_version returns.
MsgUpdated(tag) ==
    [words |-> "An updated version of AutoCrew is available: ", ver |-> tag.ver]

MsgLatest ==
    [words |-> "You are running the latest version of AutoCrew.", ver |-> <<>>]

MsgError ==
    [words |-> "Error checking for the latest version: ", ver |-> <<>>]

\* The packaging release installed: before 22.0 version.parse falls back to
\* LegacyVersion for a string that is no PEP 440 version, from 22.0 on it
\* raises InvalidVersion.  The repository pins neither.
PackagingReleases == {"legacy", "strict"}

IsPEP440(text) == text.words = "" /\ text.ver # <<>>

\* packaging.version.parse
version_parse(text, pkg) ==
    IF IsPEP440(text) THEN [kind |-> "Version", release |-> text.ver]
    ELSE IF pkg = "legacy" THEN [kind |-> "LegacyVersion", release |-> <<>>]
    ELSE [kind |-> "InvalidVersion", release |-> <<>>]

ReleaseGreater(a, b) ==
    \/ a[1] > b[1]
    \/ a[1] = b[1] /\ a[2] > b[2]
    \/ a[1] = b[1] /\ a[2] = b[2] /\ a[3] > b[3]

\* a > b on parsed versions: a LegacyVersion sorts before every Version.
version_gt(a, b) ==
    IF a.kind = "Version" /\ b.kind = "Version" THEN ReleaseGreater(a.release, b.release)
    ELSE a.kind = "Version" /\ b.kind = "LegacyVersion"

\* What the release endpoint answers.
Remotes ==
    {[status |-> s, tag |-> GarbageTag] : s \in {"network_down", "http_error", "no_tag"}}
    \cup {[status |-> "ok", tag |-> t] : t \in RemoteTags}

\* The try block of check_latest_version: the message, or the exception.
check_latest_version_try(r, pkg) ==
    IF r.status # "ok" THEN [raised |-> TRUE, msg |-> MsgError]
    ELSE LET latest == version_parse(r.tag, pkg)
             local == version_parse(VersionText(AUTOCREW_VERSION), pkg)
         IN  IF latest.kind = "InvalidVersion" THEN [raised |-> TRUE, msg |-> MsgError]
             ELSE IF version_gt(latest, local)
                  THEN [raised |-> FALSE, msg |-> MsgUpdated(r.tag)]
                  ELSE [raised |-> FALSE, msg |-> MsgLatest]

\* check_latest_version with its except clause left out.
check_latest_version_uncaught(r, pkg) == check_latest_version_try(r, pkg)

\* check_latest_version: every Exception becomes the error message.
check_latest_version(r, pkg) ==
    LET t == check_latest_version_try(r, pkg)
    IN  IF t.raised THEN [raised |-> FALSE, msg |-> MsgError] ELSE t

\* ------------------------------------------------------------ config documents

\* A config document: the DEFAULT section's options and each named section's
\* own options, option name -> value.
KeyMaps(keys, v) == UNION {[ks -> {v}] : ks \in SUBSET keys}

Docs(v) ==
    {[defaults |-> d, sections |-> s] :
        d \in KeyMaps(DefaultRawKeys, v),
        s \in UNION {[ss -> KeyMaps(RawKeys, v)] : ss \in SUBSET SectionNames}}

NoOptions == [k \in {} |-> "u"]

EmptyDoc == [defaults |-> NoOptions, sections |-> [s \in {} |-> NoOptions]]

NoFile == [exists |-> FALSE, doc |-> EmptyDoc]

FileOf(doc) == [exists |-> TRUE, doc |-> doc]

\* RawConfigParser.optionxform: str.lower
optionxform(k) == IF k = "Key" THEN "key" ELSE k

Clash(m) == \E a, b \in DOMAIN m : a # b /\ optionxform(a) = optionxform(b)

XformMap(m) ==
    [k \in {optionxform(r) : r \in DOMAIN m} |->
        m[CHOOSE r \in DOMAIN m : optionxform(r) = k]]

\* ConfigParser.read raises DuplicateOptionError (strict=True) when two options
\* of a section are the same after optionxform; a missing file is skipped.
ReadRaises(file) ==
    /\ file.exists
    /\ \/ Clash(file.doc.defaults)
       \/ \E s \in DOMAIN file.doc.sections : Clash(file.doc.sections[s])

\* ConfigParser.read
ConfigRead(file) ==
    IF ~file.exists THEN EmptyDoc
    ELSE [defaults |-> XformMap(file.doc.defaults),
          sections |-> [s \in DOMAIN file.doc.sections |-> XformMap(file.doc.sections[s])]]

\* ConfigParser.items(section): the section's options over the defaults.
Items(doc, s) ==
    [k \in DOMAIN doc.defaults \cup DOMAIN doc.sections[s] |->
        IF k \in DOMAIN doc.sections[s] THEN doc.sections[s][k] ELSE doc.defaults[k]]

Override(m, over) ==
    [k \in DOMAIN m \cup DOMAIN over |-> IF k \in DOMAIN over THEN over[k] ELSE m[k]]

\* Lines 179-183: for each section of the backup (sections() leaves DEFAULT
\* out), add it if missing and set every item of it, defaults included.
MergeConfig(config, config_backup) ==
    [defaults |-> config.defaults,
     sections |->
        [s \in DOMAIN config.sections \cup DOMAIN config_backup.sections |->
            IF s \in DOMAIN config_backup.sections
            THEN Override(IF s \in DOMAIN config.sections
                          THEN config.sections[s] ELSE NoOptions,
                          Items(config_backup, s))
            ELSE config.sections[s]]]

\* ------------------------------------------------------------ state

VARIABLES
    entry,            \* "main" or "upgrade_autocrew": the function that was called
    pc,               \* the statement about to run
    args,             \* parse_known_args' result: the flags, goal given, unknown given
    packaging,        \* the packaging release installed
    remote,           \* the release endpoint's answer to this run
    versionMessage,   \* version_message / latest_version
    dispatch,         \* the branch main took at lines 226-239
    exitCode,         \* the process' exit status, -1 while it runs
    raised,           \* the uncaught exception that ended the run
    failedAt,         \* the step that raised it
    logged,           \* messages logged
    logFile,          \* autocrew.log: "absent", "prior" (an earlier run's), "current"
    configFile,       \* config.ini
    overwritten,      \* installation files overwritten from the fetched tree
    configRewritten,  \* config.ini was opened for writing by the upgrade
    backupDirExists,  \* .backup
    backupLog,        \* .backup/autocrew-upgrade-logfile_(...).log, as logFile
    backupConfig,     \* .backup/config_backup.ini
    updateDir,        \* autocrew_update
    cloneResult,      \* "none", "ok" or "failed": how git clone ended
    todo,             \* entries of os.listdir(update_dir) the loop has yet to visit
    merged,           \* the ConfigParser object config, lines 175-183
    fetched,          \* the config.ini of the fetched tree
    config0,          \* config.ini when the run began
    log0              \* autocrew.log when the run began

vars == <<entry, pc, args, packaging, remote, versionMessage, dispatch, exitCode,
          raised, failedAt, logged, logFile, configFile, overwritten,
          configRewritten, backupDirExists, backupLog, backupConfig, updateDir,
          cloneResult, todo, merged, fetched, config0, log0>>

runVars == <<entry, packaging, config0, log0>>

fsVars == <<logFile, configFile, overwritten, configRewritten, backupDirExists,
            backupLog, backupConfig, updateDir>>

upgradeVars == <<cloneResult, todo, merged, fetched>>

\* filename == 'config.ini' among the entries of the fetched tree
ConfigIniEntry == 0

\* The fetched tree's .git, a directory.
GitDirEntry == MaxFiles + 1

TreeEntries == FileIds \cup {ConfigIniEntry, GitDirEntry}

\* os.path.isfile(source_path)
IsFile(e) == e # GitDirEntry

NoDir == [exists |-> FALSE, config |-> NoFile, entries |-> {}]

LeftoverDir == [exists |-> TRUE, config |-> NoFile, entries |-> {}]

NoArgs == [upgrade |-> FALSE, help |-> FALSE, rank |-> FALSE, verbose |-> FALSE,
           goal |-> FALSE, unknown |-> FALSE]

ArgSets == [upgrade : BOOLEAN, help : BOOLEAN, rank : BOOLEAN, verbose : BOOLEAN,
            goal : BOOLEAN, unknown : BOOLEAN]

Unasked == [status |-> "unasked", tag |-> GarbageTag]

UserConfigs == {NoFile} \cup {FileOf(d) : d \in Docs("u")}

InitFiles ==
    /\ logFile \in {"absent", "prior"}
    /\ configFile \in UserConfigs
    /\ overwritten = {}
    /\ configRewritten = FALSE
    /\ backupDirExists \in BOOLEAN
    /\ backupLog = "absent"
    /\ backupConfig = NoFile
    /\ updateDir \in {NoDir, LeftoverDir}
    /\ config0 = configFile
    /\ log0 = logFile

InitRun ==
    /\ remote = Unasked
    /\ dispatch = "none"
    /\ exitCode = -1
    /\ raised = "none"
    /\ failedAt = "none"
    /\ logged = {}
    /\ cloneResult = "none"
    /\ todo = {}
    /\ merged = EmptyDoc
    /\ fetched = NoFile

\* python autocrew.py <argv>
InitMain ==
    /\ entry = "main"
    /\ pc = "initialize_logging"
    /\ args \in ArgSets
    /\ packaging \in PackagingReleases
    /\ versionMessage = MsgError
    /\ InitRun
    /\ InitFiles

\* upgrade_autocrew(latest_version)
InitUpgrade ==
    /\ entry = "upgrade_autocrew"
    /\ pc = "backup_dir"
    /\ args = NoArgs
    /\ packaging = "strict"
    /\ versionMessage \in {VersionText(<<2, 2, 0>>), MsgUpdated(VersionText(<<2, 2, 0>>))}
    /\ InitRun
    /\ InitFiles

Init == InitMain \/ InitUpgrade

\* An exception nothing catches: the interpreter ends with status 1.
Raise(exc, at) ==
    /\ pc' = "exited"
    /\ exitCode' = 1
    /\ raised' = exc
    /\ failedAt' = at

\* sys.exit(code)
Exit(code) ==
    /\ pc' = "exited"
    /\ exitCode' = code
    /\ UNCHANGED <<raised, failedAt>>

Continue(next) ==
    /\ pc' = next
    /\ UNCHANGED <<exitCode, raised, failedAt>>

\* ------------------------------------------------------------ main

\* Lines 209-214: initialize_logging reads config.ini, then opens autocrew.log
\* with mode 'w'.
InitializeLogging ==
    /\ pc = "initialize_logging"
    /\ IF ReadRaises(configFile)
       THEN /\ Raise("DuplicateOptionError", "initialize_logging")
            /\ UNCHANGED <<logFile, logged>>
       ELSE /\ logFile' = "current"
            /\ logged' = logged \cup {"Command-line arguments"}
            /\ Continue("check_latest_version")
    /\ UNCHANGED <<runVars, args, remote, versionMessage, dispatch, configFile,
                   overwritten, configRewritten, backupDirExists, backupLog,
                   backupConfig, updateDir, upgradeVars>>

\* Lines 217-224
CheckLatestVersion ==
    /\ pc = "check_latest_version"
    /\ \E r \in Remotes :
        LET c == check_latest_version(r, packaging)
        IN  /\ remote' = r
            /\ IF c.raised
               THEN /\ Raise("Exception", "check_latest_version")
                    /\ UNCHANGED <<versionMessage, logged>>
               ELSE /\ versionMessage' = c.msg
                    /\ logged' = logged \cup {"AutoCrew version"}
                    /\ Continue("dispatch")
    /\ UNCHANGED <<runVars, args, dispatch, fsVars, upgradeVars>>

\* The branch lines 226-239 take.
DispatchBranch(a, msg, pkg) ==
    IF a.upgrade \/ a.help
    THEN IF a.unknown THEN "usage"
         ELSE IF a.upgrade
              THEN LET latest == version_parse(msg, pkg)
                       local == version_parse(VersionText(AUTOCREW_VERSION), pkg)
                   IN  IF latest.kind = "InvalidVersion" THEN "invalid_version"
                       ELSE IF version_gt(latest, local) THEN "upgrade"
                       ELSE "no_upgrade"
              ELSE "help"
    ELSE "continue"

\* Lines 226-239
Dispatch ==
    /\ pc = "dispatch"
    /\ LET b == DispatchBranch(args, versionMessage, packaging)
       IN  /\ dispatch' = b
           /\ CASE b = "usage" ->
                    /\ logged' = logged \cup {"Error: cannot be used with other arguments"}
                    /\ Exit(1)
                [] b = "invalid_version" ->
                    /\ logged' = logged \cup {"Uncaught exception"}
                    /\ Raise("InvalidVersion", "dispatch")
                [] b = "upgrade" ->
                    /\ UNCHANGED logged
                    /\ Continue("backup_dir")
                [] b = "no_upgrade" ->
                    /\ logged' = logged \cup {"No new version available"}
                    /\ Exit(0)
                [] b = "help" ->
                    /\ UNCHANGED logged
                    /\ Exit(0)
                [] OTHER ->
                    /\ UNCHANGED logged
                    /\ Continue("autocrew")
    /\ UNCHANGED <<runVars, args, remote, versionMessage, fsVars, upgradeVars>>

\* Lines 241-242: the collaborator's constructor, outside the try block.
ConstructAutoCrew ==
    /\ pc = "autocrew"
    /\ \E ok \in BOOLEAN :
        IF ok THEN /\ Continue("goal")
                   /\ UNCHANGED logged
        ELSE /\ Raise("Exception", "autocrew")
             /\ logged' = logged \cup {"Uncaught exception"}
    /\ UNCHANGED <<runVars, args, remote, versionMessage, dispatch, fsVars, upgradeVars>>

\* Lines 245-246
SetGoal ==
    /\ pc = "goal"
    /\ args' = [args EXCEPT !.goal = TRUE]
    /\ Continue("workflow")
    /\ UNCHANGED <<runVars, remote, versionMessage, dispatch, logged, fsVars, upgradeVars>>

\* Lines 248-278: ranking or generation, by the collaborator.
Workflow ==
    /\ pc = "workflow"
    /\ \E found \in BOOLEAN, ok \in BOOLEAN :
        IF ~ok
        THEN /\ logged' = logged \cup {"An error occurred during script execution."}
             /\ Exit(1)
        ELSE IF args.rank /\ ~found
        THEN /\ logged' = logged \cup {"No existing scripts found to rank."}
             /\ Exit(1)
        ELSE /\ UNCHANGED logged
             /\ Exit(0)
    /\ UNCHANGED <<runVars, args, remote, versionMessage, dispatch, fsVars, upgradeVars>>

\* ------------------------------------------------------------ upgrade_autocrew

mainVars == <<args, remote, versionMessage, dispatch>>

\* Lines 146-148
MakeBackupDir ==
    /\ pc = "backup_dir"
    /\ \E ok \in BOOLEAN :
        IF backupDirExists
        THEN /\ Continue("backup_log")
             /\ UNCHANGED backupDirExists
        ELSE IF ok
        THEN /\ backupDirExists' = TRUE
             /\ Continue("backup_log")
        ELSE /\ Raise("OSError", "backup_dir")
             /\ UNCHANGED backupDirExists
    /\ UNCHANGED <<runVars, mainVars, logged, logFile, configFile, overwritten,
                   configRewritten, backupLog, backupConfig, updateDir, upgradeVars>>

\* Lines 150-155
BackupLog ==
    /\ pc = "backup_log"
    /\ \E ok \in BOOLEAN :
        IF logFile = "absent"
        THEN /\ Continue("backup_config")
             /\ UNCHANGED <<backupLog, logged>>
        ELSE IF ok
        THEN /\ backupLog' = logFile
             /\ logged' = logged \cup {"Backing up the current logfile"}
             /\ Continue("backup_config")
        ELSE /\ Raise("OSError", "backup")
             /\ UNCHANGED <<backupLog, logged>>
    /\ UNCHANGED <<runVars, mainVars, logFile, configFile, overwritten,
                   configRewritten, backupDirExists, backupConfig, updateDir,
                   upgradeVars>>

\* Lines 157-159 with the copy's failure caught and passed over.
BackupConfigBestEffort ==
    /\ pc = "backup_config"
    /\ \E ok \in BOOLEAN :
        IF configFile.exists /\ ok
        THEN /\ backupConfig' = configFile
             /\ logged' = logged \cup {"Backing up the current config.ini file"}
             /\ Continue("clear_update_dir")
        ELSE /\ Continue("clear_update_dir")
             /\ UNCHANGED <<backupConfig, logged>>
    /\ UNCHANGED <<runVars, mainVars, logFile, configFile, overwritten,
                   configRewritten, backupDirExists, backupLog, updateDir,
                   upgradeVars>>

\* Lines 157-159: shutil.copyfile('config.ini', ...) with no test that
\* config.ini exists and nothing to catch what it raises.
BackupConfig ==
    /\ pc = "backup_config"
    /\ \E ok \in BOOLEAN :
        IF ~configFile.exists
        THEN /\ Raise("FileNotFoundError", "backup")
             /\ UNCHANGED <<backupConfig, logged>>
        ELSE IF ok
        THEN /\ backupConfig' = configFile
             /\ logged' = logged \cup {"Backing up the current config.ini file"}
             /\ Continue("clear_update_dir")
        ELSE /\ Raise("OSError", "backup")
             /\ UNCHANGED <<backupConfig, logged>>
    /\ UNCHANGED <<runVars, mainVars, logFile, configFile, overwritten,
                   configRewritten, backupDirExists, backupLog, updateDir,
                   upgradeVars>>

\* Lines 161-163
ClearUpdateDir ==
    /\ pc = "clear_update_dir"
    /\ \E ok \in BOOLEAN :
        IF ~updateDir.exists
        THEN /\ Continue("clone")
             /\ UNCHANGED updateDir
        ELSE IF ok
        THEN /\ updateDir' = NoDir
             /\ Continue("clone")
        ELSE /\ Raise("OSError", "clear_update_dir")
             /\ UNCHANGED updateDir
    /\ UNCHANGED <<runVars, mainVars, logged, logFile, configFile, overwritten,
                   configRewritten, backupDirExists, backupLog, backupConfig,
                   upgradeVars>>

\* Lines 165-166: subprocess.run(['git', 'clone', ...]) with its return code
\* not looked at.  A clone that fails leaves no directory behind.
Clone ==
    /\ pc = "clone"
    /\ \/ /\ cloneResult' = "failed"
          /\ UNCHANGED <<updateDir, fetched>>
       \/ \E d \in Docs("d") :
            /\ cloneResult' = "ok"
            /\ fetched' = FileOf(d)
            /\ updateDir' = [exists |-> TRUE, config |-> FileOf(d), entries |-> TreeEntries]
    /\ logged' = logged \cup {"Cloning the latest version from GitHub"}
    /\ Continue("listdir")
    /\ UNCHANGED <<runVars, mainVars, logFile, configFile, overwritten,
                   configRewritten, backupDirExists, backupLog, backupConfig,
                   todo, merged>>

\* os.listdir of a directory that is taken for empty when it does not exist.
ListDirLenient(dir) == [raised |-> FALSE, entries |-> dir.entries]

\* os.listdir(update_dir): FileNotFoundError when the directory does not exist.
ListDir(dir) ==
    IF dir.exists THEN [raised |-> FALSE, entries |-> dir.entries]
    ELSE [raised |-> TRUE, entries |-> {}]

\* Line 168, the head of the loop
ListUpdateDir ==
    /\ pc = "listdir"
    /\ LET l == ListDir(updateDir)
       IN  IF l.raised
           THEN /\ Raise("FileNotFoundError", "fetch")
                /\ UNCHANGED todo
           ELSE /\ todo' = l.entries
                /\ Continue("replace")
    /\ UNCHANGED <<runVars, mainVars, logged, fsVars, cloneResult, merged, fetched>>

\* Lines 168-172, one iteration of the loop on a regular file
CopyFile ==
    /\ pc = "replace"
    /\ \E e \in todo, ok \in BOOLEAN :
        /\ IsFile(e) /\ e # ConfigIniEntry
        /\ IF ok
           THEN /\ overwritten' = overwritten \cup {e}
                /\ todo' = todo \ {e}
                /\ Continue("replace")
           ELSE /\ Raise("OSError", "replace")
                /\ UNCHANGED <<overwritten, todo>>
    /\ UNCHANGED <<runVars, mainVars, logged, logFile, configFile, configRewritten,
                   backupDirExists, backupLog, backupConfig, updateDir,
                   cloneResult, merged, fetched>>

\* Lines 168-170, one iteration on a directory or on config.ini
SkipEntry ==
    /\ pc = "replace"
    /\ \E e \in todo :
        /\ ~(IsFile(e) /\ e # ConfigIniEntry)
        /\ todo' = todo \ {e}
    /\ Continue("replace")
    /\ UNCHANGED <<runVars, mainVars, logged, fsVars, cloneResult, merged, fetched>>

\* Lines 174-183
MergeConfigs ==
    /\ pc = "replace"
    /\ todo = {}
    /\ IF ReadRaises(updateDir.config) \/ ReadRaises(backupConfig)
       THEN /\ Raise("DuplicateOptionError", "merge")
            /\ UNCHANGED merged
       ELSE /\ merged' = MergeConfig(ConfigRead(updateDir.config), ConfigRead(backupConfig))
            /\ Continue("write_config")
    /\ logged' = logged \cup {"Updating the config.ini file with your previous settings"}
    /\ UNCHANGED <<runVars, mainVars, fsVars, cloneResult, todo, fetched>>

\* Lines 184-185
WriteConfig ==
    /\ pc = "write_config"
    /\ \E ok \in BOOLEAN :
        IF ok
        THEN /\ configFile' = FileOf(merged)
             /\ configRewritten' = TRUE
             /\ Continue("cleanup")
        ELSE /\ Raise("OSError", "write_config")
             /\ UNCHANGED <<configFile, configRewritten>>
    /\ UNCHANGED <<runVars, mainVars, logged, logFile, overwritten, backupDirExists,
                   backupLog, backupConfig, updateDir, upgradeVars>>

\* Lines 187-188 with the rmtree left out.
CleanUpSkipped ==
    /\ pc = "cleanup"
    /\ logged' = logged \cup {"Cleaned up the update directory."}
    /\ Continue("finish")
    /\ UNCHANGED <<runVars, mainVars, fsVars, upgradeVars>>

\* Lines 187-188
CleanUp ==
    /\ pc = "cleanup"
    /\ \E ok \in BOOLEAN :
        IF ok
        THEN /\ updateDir' = NoDir
             /\ logged' = logged \cup {"Cleaned up the update directory."}
             /\ Continue("finish")
        ELSE /\ Raise("OSError", "cleanup")
             /\ UNCHANGED <<updateDir, logged>>
    /\ UNCHANGED <<runVars, mainVars, logFile, configFile, overwritten,
                   configRewritten, backupDirExists, backupLog, backupConfig,
                   upgradeVars>>

\* Lines 190-192
Finish ==
    /\ pc = "finish"
    /\ logged' = logged \cup {"Upgrade successful."}
    /\ Exit(0)
    /\ UNCHANGED <<runVars, mainVars, fsVars, upgradeVars>>

Next ==
    \/ InitializeLogging
    \/ CheckLatestVersion
    \/ Dispatch
    \/ ConstructAutoCrew
    \/ SetGoal
    \/ Workflow
    \/ MakeBackupDir
    \/ BackupLog
    \/ BackupConfig
    \/ ClearUpdateDir
    \/ Clone
    \/ ListUpdateDir
    \/ CopyFile
    \/ SkipEntry
    \/ MergeConfigs
    \/ WriteConfig
    \/ CleanUp
    \/ Finish

Spec == Init /\ [][Next]_vars

\* ------------------------------------------------------------ properties

\* The options of a config.ini, (section, option, value), names as written.
OptionsOf(file) ==
    {<<"DEFAULT", k, file.doc.defaults[k]>> : k \in DOMAIN file.doc.defaults}
    \cup UNION {{<<s, k, file.doc.sections[s][k]>> : k \in DOMAIN file.doc.sections[s]} :
                    s \in DOMAIN file.doc.sections}

KeysOf(file) == {<<o[1], o[2]>> : o \in OptionsOf(file)}

OnlyUpgrade == args = [NoArgs EXCEPT !.upgrade = TRUE]

Answered(tag) == remote = [status |-> "ok", tag |-> VersionText(tag)]

UpgradeInvoked == entry = "upgrade_autocrew" \/ dispatch = "upgrade"

NothingBackedUp == backupConfig = NoFile /\ backupLog = "absent"

\* C1: a run of main with only --upgrade, the release endpoint answering
\* 2.2.0, logging set up, and no failure of the fetch or of the replacement,
\* ends with exit code 0 after entering the upgrade, and config.ini then holds
\* every option the user had set, with the user's value, and every option
\* only the fetched default has.
C1_UpgradeToNewerRelease ==
    ( /\ entry = "main" /\ pc = "exited" /\ OnlyUpgrade
      /\ Answered(<<2, 2, 0>>)
      /\ logFile = "current"
      /\ cloneResult # "failed"
      /\ failedAt \notin {"fetch", "replace", "write_config"} )
    => /\ exitCode = 0
       /\ dispatch = "upgrade"
       /\ OptionsOf(config0) \subseteq OptionsOf(configFile)
       /\ KeysOf(fetched) \ KeysOf(config0) \subseteq KeysOf(configFile)

\* C2: a run of main with only --upgrade, the release endpoint answering
\* 2.1.4, ends with exit code 0, the check having found no newer version,
\* "No new version available" logged, and no backup, fetch or replacement done.
C2_SameVersionIsNoOp ==
    ( /\ entry = "main" /\ pc = "exited" /\ OnlyUpgrade
      /\ Answered(<<2, 1, 4>>)
      /\ logFile = "current" )
    => /\ versionMessage = MsgLatest
       /\ exitCode = 0
       /\ "No new version available" \in logged
       /\ NothingBackedUp /\ cloneResult = "none"
       /\ overwritten = {} /\ ~configRewritten

\* C3: a run of main with --upgrade or --help and any other argument (a
\* recognized flag, a goal, an unrecognized argument) ends as a usage
\* conflict with exit code 1 and with every file as it was before the run.
C3_UsageConflictBeforeSideEffects ==
    ( /\ entry = "main" /\ pc = "exited"
      /\ ~ReadRaises(config0)
      /\ args.upgrade \/ args.help
      /\ args.rank \/ args.verbose \/ args.goal \/ args.unknown )
    => /\ exitCode = 1
       /\ dispatch = "usage"
       /\ logFile = log0
       /\ configFile = config0
       /\ NothingBackedUp /\ overwritten = {}

\* C4: in a run of main whose release check failed (no network, an HTTP
\* error, a descriptor without tag, a tag that does not parse), the check
\* does not end the run: the error message becomes the version message, the
\* startup message is logged, and the dispatch takes the branch it takes
\* when the check reports the latest version.
C4_VersionCheckFailureIsNotFatal ==
    ( /\ entry = "main" /\ remote # Unasked
      /\ check_latest_version_try(remote, packaging).raised )
    => /\ failedAt # "check_latest_version"
       /\ versionMessage = MsgError
       /\ "AutoCrew version" \in logged
       /\ dispatch # "none" => dispatch = DispatchBranch(args, MsgLatest, packaging)

C4_Witness ==
    /\ entry = "main"
    /\ remote.status = "network_down"
    /\ dispatch = "continue"
    /\ pc = "exited" /\ exitCode = 0

\* The section/option names of a config.ini as ConfigParser looks them up,
\* after optionxform.
LookupKeysOf(file) == {<<o[1], optionxform(o[2])>> : o \in OptionsOf(file)}

\* C5: once the upgrade has written config.ini, every section/option of the
\* fetched default config and of the user's prior config, DEFAULT included,
\* is in config.ini.  Names are compared as ConfigParser looks them up, which
\* asks less than the names as written: "Key" counts as kept when "key" is
\* there.
C5_MergeDropsNoKey ==
    configRewritten =>
        LookupKeysOf(fetched) \cup LookupKeysOf(config0) \subseteq LookupKeysOf(configFile)

\* C6: the backup step never fails on a file that does not exist, and once it
\* is over .backup exists, exactly the existing ones of autocrew.log and
\* config.ini are copied, and both are as they were.
C6_BackupSkipsMissingFiles ==
    /\ ~(failedAt = "backup" /\ raised = "FileNotFoundError")
    /\ pc = "clear_update_dir"
         => /\ backupDirExists
            /\ backupLog = logFile
            /\ backupConfig = configFile
            /\ configFile = config0
            /\ entry = "upgrade_autocrew" => logFile = log0

C8_BackupBeforeDestructiveStep ==
    (overwritten # {} \/ configRewritten)
    => /\ backupDirExists
       /\ config0.exists /\ backupConfig = config0
       /\ backupLog = logFile

C8_Witness ==
    /\ overwritten = FileIds
    /\ configRewritten
    /\ logFile = "prior" /\ backupLog = "prior"
    /\ pc = "exited" /\ exitCode = 0

\* C9: a failure of the backup step never ends the upgrade: it is passed
\* over and the upgrade goes on to the fetch.
C9_BackupFailureIsSwallowed ==
    UpgradeInvoked => failedAt # "backup"

\* C10 as claimed: whenever an upgrade has ended, as done or as failed at the
\* fetch, the replacement, the merge or the writing of config.ini, the
\* directory autocrew_update does not exist.
C10_UpdateDirRemovedOnEveryPath ==
    ( /\ UpgradeInvoked /\ pc = "exited"
      /\ exitCode = 0 \/ failedAt \in {"fetch", "replace", "merge", "write_config"} )
    => ~updateDir.exists

\* C10 as amended: whenever an upgrade has ended as done, or as failed at the
\* fetch, autocrew_update does not exist; whenever it has ended as failed at
\* the replacement, the merge or the writing of config.ini, it still exists.
C10_UpdateDirRemovedOnSuccess ==
    (UpgradeInvoked /\ pc = "exited")
    => /\ (exitCode = 0 \/ failedAt = "fetch") => ~updateDir.exists
       /\ failedAt \in {"replace", "merge", "write_config"} => updateDir.exists

C10_Witness ==
    /\ UpgradeInvoked
    /\ pc = "exited" /\ exitCode = 0
    /\ cloneResult = "ok"
    /\ ~updateDir.exists

====
